---- MODULE Spec2Model ----
(***************************************************************************)
(* The Synap Python SDK (sdks/python/synap_sdk): the configuration, the     *)
(* transport envelope of SynapClient (send_command, execute), the ownership *)
(* of the HTTP client, the Authorization header set at construction, and    *)
(* the command builders (transaction, bitmap, geospatial, set).  Python     *)
(* values are modelled as tagged JSON values, Python str as TLA+ strings.   *)
(*                                                                          *)
(* Four specifications share the variables: Spec (the client and its        *)
(* transport), ConfigSpec (SynapConfig objects), TxSpec (the transaction    *)
(* builder against a server) and BuilderSpec (the validating builders).     *)
(***************************************************************************)
EXTENDS Integers, Sequences, FiniteSets, TLC

VARIABLES
    config,        \* SynapClient._config
    owns_client,   \* SynapClient._owns_client
    http_client,   \* SynapClient._http_client (the httpx.AsyncClient in use)
    calls,         \* the coroutines suspended at `await self._http_client.post(...)`
    last,          \* the call that just completed, until its caller goes on:
                   \* what post() did and what the caller saw
    in_context,    \* inside `async with client:`
    shutdowns,     \* close() / __aexit__ operations performed on the client
    configs,       \* the SynapConfig objects the caller has constructed, in order
    config_op,     \* the configuration operation that just completed
    server,        \* the transaction scopes of the server, one per client_id
    managers       \* the fields _kv ... _transaction of the client: 0 for
                   \* None, n for the n-th manager of the family constructed
                   \* for the client

vars == <<config, owns_client, http_client, calls, last, in_context, shutdowns,
          configs, config_op, server, managers>>

(***************************************************************************)
(* Bounds of the model.                                                    *)
(***************************************************************************)
MaxCalls == 1
MaxShutdowns == 2
MaxConfigs == 2
MaxLocations == 2
MaxTasks == 2

(***************************************************************************)
(* Python / JSON values.                                                   *)
(***************************************************************************)
PyNone == [t |-> "null"]
JBool(b) == [t |-> "bool", b |-> b]
JNum(n) == [t |-> "num", n |-> n]
JStr(s) == [t |-> "str", s |-> s]
JList(l) == [t |-> "list", l |-> l]
JObj(f) == [t |-> "obj", o |-> f]

\* A dict with no key: the domain of the record is empty.
EmptyDict == JObj([k \in {} |-> PyNone])

IsDict(j) == j.t = "obj"
IsList(j) == j.t = "list"
HasKey(d, k) == k \in DOMAIN d.o

\* d.get(k, default)
DictGet(d, k, default) == IF HasKey(d, k) THEN d.o[k] ELSE default

\* d with d[k] = v
DictSet(d, k, v) ==
    JObj([x \in (DOMAIN d.o) \cup {k} |-> IF x = k THEN v ELSE d.o[x]])

\* bool(x): Python truth value testing
Truthy(j) ==
    CASE j.t = "null" -> FALSE
      [] j.t = "bool" -> j.b
      [] j.t = "num"  -> j.n # 0
      [] j.t = "str"  -> Len(j.s) > 0
      [] j.t = "list" -> Len(j.l) > 0
      [] j.t = "obj"  -> DOMAIN j.o # {}

Digits == "0123456789"

RECURSIVE DecStr(_)
\* str(n) of a non-negative int
DecStr(n) ==
    IF n < 10 THEN SubSeq(Digits, n + 1, n + 1)
    ELSE DecStr(n \div 10) \o SubSeq(Digits, (n % 10) + 1, (n % 10) + 1)

\* str(x) of the values an `error` field or a message takes
PyStr(j) ==
    CASE j.t = "str"  -> j.s
      [] j.t = "null" -> "None"
      [] j.t = "bool" -> IF j.b THEN "True" ELSE "False"
      [] j.t = "num"  -> DecStr(j.n)

\* `needle in haystack` on str
StrContains(haystack, needle) ==
    \E i \in 0..(Len(haystack) - Len(needle)) :
        SubSeq(haystack, i + 1, i + Len(needle)) = needle

(***************************************************************************)
(* SynapException and its factory methods.  synap_sdk/exceptions.py is not *)
(* among the sources: the message formats follow tests/test_exceptions.py  *)
(* and the error taxonomy of the specification.                            *)
(***************************************************************************)
SynapException(message) ==
    [type |-> "SynapException", kind |-> "base", message |-> message]

server_error(message) ==
    [type |-> "SynapException", kind |-> "server",
     message |-> "Server Error: " \o message]

network_error(message) ==
    [type |-> "SynapException", kind |-> "network",
     message |-> "Network Error: " \o message]

invalid_response(message) ==
    [type |-> "SynapException", kind |-> "invalid_response",
     message |-> "Invalid Response: " \o message]

http_error(message, status_code) ==
    [type |-> "SynapException", kind |-> "http",
     message |-> "HTTP Error (" \o DecStr(status_code) \o "): " \o message,
     status_code |-> status_code]

\* The two ways a Python call ends.
Return(v) == [k |-> "return", v |-> v]
Raise(e) == [k |-> "raise", e |-> e]

(***************************************************************************)
(* base64.b64encode(s.encode()).decode() for ASCII text.                   *)
(***************************************************************************)
AsciiFrom32 == " !\"#$%&'()*+,-./0123456789:;<=>?@ABCDEFGHIJKLMNOPQRSTUVWXYZ[\\]^_"
AsciiFrom97 == "abcdefghijklmnopqrstuvwxyz{|}~"

\* ord(c) of a one-character ASCII string (str.encode() of ASCII text)
Ord(c) ==
    IF \E n \in 1..Len(AsciiFrom97) : SubSeq(AsciiFrom97, n, n) = c
    THEN 96 + (CHOOSE n \in 1..Len(AsciiFrom97) : SubSeq(AsciiFrom97, n, n) = c)
    ELSE 31 + (CHOOSE n \in 1..Len(AsciiFrom32) : SubSeq(AsciiFrom32, n, n) = c)

Encode(s) == [i \in 1..Len(s) |-> Ord(SubSeq(s, i, i))]

B64Alphabet == "ABCDEFGHIJKLMNOPQRSTUVWXYZabcdefghijklmnopqrstuvwxyz0123456789+/"

B64Char(i) == SubSeq(B64Alphabet, i + 1, i + 1)

RECURSIVE b64encode(_)
b64encode(bytes) ==
    IF Len(bytes) = 0 THEN ""
    ELSE IF Len(bytes) = 1 THEN
        B64Char(bytes[1] \div 4) \o B64Char((bytes[1] % 4) * 16) \o "=="
    ELSE IF Len(bytes) = 2 THEN
        B64Char(bytes[1] \div 4)
        \o B64Char((bytes[1] % 4) * 16 + bytes[2] \div 16)
        \o B64Char((bytes[2] % 16) * 4) \o "="
    ELSE
        B64Char(bytes[1] \div 4)
        \o B64Char((bytes[1] % 4) * 16 + bytes[2] \div 16)
        \o B64Char((bytes[2] % 16) * 4 + bytes[3] \div 64)
        \o B64Char(bytes[3] % 64)
        \o b64encode(SubSeq(bytes, 4, Len(bytes)))

(***************************************************************************)
(* SynapConfig (config.py).                                                *)
(***************************************************************************)
\* rstrip that removes one trailing character only.
RStripOnce(s, ch) ==
    IF Len(s) > 0 /\ SubSeq(s, Len(s), Len(s)) = ch
    THEN SubSeq(s, 1, Len(s) - 1)
    ELSE s

RECURSIVE RStrip(_, _)
\* s.rstrip(ch) for a one-character ch
RStrip(s, ch) ==
    IF Len(s) > 0 /\ SubSeq(s, Len(s), Len(s)) = ch
    THEN RStrip(SubSeq(s, 1, Len(s) - 1), ch)
    ELSE s

RECURSIVE LStrip(_, _)
LStrip(s, ch) ==
    IF Len(s) > 0 /\ SubSeq(s, 1, 1) = ch
    THEN LStrip(SubSeq(s, 2, Len(s)), ch)
    ELSE s

\* s.strip(): whitespace is the blank here
Strip(s) == LStrip(RStrip(s, " "), " ")

\* SynapConfig.__init__: the new configuration, or the exception raised
SynapConfigInit(base_url, timeout, auth_token, username, password, max_retries) ==
    IF Len(base_url) = 0 \/ Len(Strip(base_url)) = 0
    THEN Raise(SynapException("Base URL cannot be empty"))
    ELSE IF Truthy(auth_token) /\ (Truthy(username) \/ Truthy(password))
    THEN Raise(SynapException(
             "Cannot use both auth_token and Basic Auth (username/password)"))
    ELSE Return([base_url    |-> RStrip(base_url, "/"),
                 timeout     |-> timeout,
                 auth_token  |-> auth_token,
                 username    |-> username,
                 password    |-> password,
                 max_retries |-> max_retries])

DefaultTimeout == 30
DefaultMaxRetries == 3

\* The arguments a caller constructs a configuration with.
BaseUrls == {"http://h/"}
AuthTokens == {PyNone, JStr(""), JStr("tk")}
Usernames == {PyNone, JStr("u")}
Passwords == {PyNone, JStr("pw")}

\* The configurations a client is constructed with: those the constructor
\* returns, with the default retry budget or with none.
Configs ==
    {r.v : r \in {c \in {SynapConfigInit(b, DefaultTimeout, t, u, p, DefaultMaxRetries) :
                            b \in BaseUrls, t \in AuthTokens,
                            u \in Usernames, p \in Passwords}
                         \cup {SynapConfigInit(b, DefaultTimeout, PyNone, PyNone, PyNone, 0) :
                                  b \in BaseUrls} :
                  c.k = "return"}}

\* SynapConfig.create(base_url): cls(base_url)
create(base_url) ==
    SynapConfigInit(base_url, DefaultTimeout, PyNone, PyNone, PyNone,
                    DefaultMaxRetries)

with_timeout(self, timeout) ==
    SynapConfigInit(self.base_url, timeout, self.auth_token, self.username,
                    self.password, self.max_retries)

\* with_auth_token that hands the Basic Auth credentials of the receiver on.
with_auth_token_keeping_basic_auth(self, token) ==
    SynapConfigInit(self.base_url, self.timeout, token, self.username,
                    self.password, self.max_retries)

with_auth_token(self, token) ==
    SynapConfigInit(self.base_url, self.timeout, token, PyNone, PyNone,
                    self.max_retries)

with_basic_auth(self, username, password) ==
    SynapConfigInit(self.base_url, self.timeout, PyNone, username, password,
                    self.max_retries)

with_max_retries(self, retries) ==
    SynapConfigInit(self.base_url, self.timeout, self.auth_token, self.username,
                    self.password, retries)

\* The arguments a caller gives the constructor and the with_* methods.
BaseUrlArgs == {"", " ", "/", "http://h", "http://h//"}
UsernameArgs == {PyNone, JStr(""), JStr("u")}
TokenArgs == {JStr(""), JStr("tk")}
Timeouts == {DefaultTimeout, 5}
RetryBudgets == {DefaultMaxRetries, 0}

(***************************************************************************)
(* SynapClient.__init__ (client.py).                                       *)
(***************************************************************************)
\* httpx.AsyncClient(base_url=..., timeout=..., headers=...)
AsyncClient(base_url, timeout, headers) ==
    [t |-> "AsyncClient", base_url |-> base_url, timeout |-> timeout,
     headers |-> headers, is_closed |-> FALSE, aclose_calls |-> 0]

\* ClientHeaders with the credentials left unencoded.
ClientHeadersUnencoded(cfg) ==
    IF Truthy(cfg.auth_token)
    THEN [Accept |-> "application/json",
          Authorization |-> "Bearer " \o cfg.auth_token.s]
    ELSE IF Truthy(cfg.username) /\ Truthy(cfg.password)
    THEN [Accept |-> "application/json",
          Authorization |-> "Basic " \o cfg.username.s \o ":" \o cfg.password.s]
    ELSE [Accept |-> "application/json"]

\* The headers the client gives the transport it creates.
ClientHeaders(cfg) ==
    IF Truthy(cfg.auth_token)
    THEN [Accept |-> "application/json",
          Authorization |-> "Bearer " \o cfg.auth_token.s]
    ELSE IF Truthy(cfg.username) /\ Truthy(cfg.password)
    THEN [Accept |-> "application/json",
          Authorization |->
              "Basic " \o b64encode(Encode(cfg.username.s \o ":" \o cfg.password.s))]
    ELSE [Accept |-> "application/json"]

\* The transport the client uses: the caller's, or one it creates.
ClientTransport(cfg, supplied) ==
    IF supplied # PyNone
    THEN supplied
    ELSE AsyncClient(cfg.base_url, cfg.timeout, ClientHeaders(cfg))

\* self._owns_client = http_client is None
OwnsClient(supplied) == supplied = PyNone

\* The transports a caller may construct itself and hand to the client.
SuppliedClients == {AsyncClient("http://h", 5, [Accept |-> "*/*"])}

\* await self._http_client.aclose()
aclose(h) == [h EXCEPT !.is_closed = TRUE, !.aclose_calls = @ + 1]

\* close() that does not look at the ownership flag.
close_unconditionally(owns, h) == aclose(h)

\* close() with the ownership test inverted.
close_if_supplied(owns, h) == IF ~owns THEN aclose(h) ELSE h

\* close(): the transport after the call
close(owns, h) == IF owns THEN aclose(h) ELSE h

(***************************************************************************)
(* The responses of the server and the failures of the transport.          *)
(***************************************************************************)
Absent == [t |-> "absent"]

\* The JSON object with the given fields, those that are present.
MkDict(fields) ==
    JObj([k \in {x \in DOMAIN fields : fields[x] # Absent} |-> fields[k]])

SuccessValues == {Absent, JBool(TRUE), JBool(FALSE), PyNone}
ErrorValues == {Absent, JStr(""), JStr("boom")}
PayloadValues ==
    {Absent, PyNone, EmptyDict,
     JObj([results |-> JList(<<>>)]),
     JObj([results |-> JList(<<JStr("OK"), JNum(1)>>), message |-> JStr("done")]),
     JObj([results |-> JStr("none"), message |-> JStr("changed")])}

ResponseObjects ==
    {MkDict([success |-> s, error |-> e, payload |-> p]) :
        s \in SuccessValues, e \in ErrorValues, p \in PayloadValues}

\* response.text is empty; or is not JSON; or parses to a JSON value
Bodies ==
    {[k |-> "empty"], [k |-> "text"]}
    \cup {[k |-> "json", j |-> v] : v \in ResponseObjects \cup {JList(<<>>)}}

StatusCodes == {200, 500}

Responses == [status_code : StatusCodes, body : Bodies]

\* httpx.Response.is_success
is_success(response) ==
    response.status_code >= 200 /\ response.status_code <= 299

\* The exception classes of httpx that derive from httpx.HTTPError.
HttpxHTTPErrors == {"ConnectError", "ConnectTimeout", "ReadTimeout"}

\* What `await post(...)` raises when the transport fails: connection refused
\* or DNS failure (ConnectError), the configured timeout (ReadTimeout).
TransportErrors ==
    {[type |-> "ConnectError", message |-> "refused"],
     [type |-> "ReadTimeout", message |-> "timed out"]}

\* What a caller-level timeout (asyncio.wait_for, asyncio.timeout) raises in
\* the coroutine suspended at the await: the task is cancelled.
CancelledError == [type |-> "CancelledError", message |-> ""]

\* What post() raises on a transport that was closed.
ClosedError ==
    [type |-> "RuntimeError",
     message |-> "Cannot send a request, as the client has been closed."]

(***************************************************************************)
(* SynapClient.send_command and SynapClient.execute (client.py).           *)
(***************************************************************************)
\* `payload or {}`
OrEmptyDict(d) == IF Truthy(d) THEN d ELSE EmptyDict

send_command_request(command, payload, request_id) ==
    [path |-> "/api/v1/command",
     json |-> [command |-> command, request_id |-> request_id,
               payload |-> OrEmptyDict(payload)]]

execute_request(operation, target, data) ==
    [path |-> "/api/stream",
     json |-> [operation |-> operation, target |-> target,
               data |-> OrEmptyDict(data)]]

\* `except httpx.ConnectError as e`: the timeouts are not caught.
IsConnectError(e) == e.type = "ConnectError"

\* `except httpx.HTTPError as e`
IsHTTPError(e) == e.type \in HttpxHTTPErrors

\* `raise SynapException.network_error(str(e)) from e`, or e passes through
OnTransportRaise(e) ==
    IF IsHTTPError(e) THEN Raise(network_error(e.message)) ELSE Raise(e)

\* send_command and execute without the test of an empty body.
BodyIsEmptyUntested(response) == FALSE

\* `if not response.text`
BodyIsEmpty(response) == response.body.k = "empty"

\* response.json() raises
JsonFails(response) == response.body.k # "json"

ParseFailure ==
    Raise(invalid_response("Failed to parse JSON response: " \o "bad json"))

StatusFailure(response) ==
    Raise(http_error("Request failed with status " \o DecStr(response.status_code),
                     response.status_code))

\* `not result.get("success")`: a missing key counts as a failure.
EnvelopeFailedByDefault(result) ==
    IsDict(result) /\ ~Truthy(DictGet(result, "success", PyNone))

\* `isinstance(result, dict) and not result.get("success", True)`
EnvelopeFailed(result) ==
    IsDict(result) /\ ~Truthy(DictGet(result, "success", JBool(TRUE)))

\* The server error raised without the `error` text of the response.
EnvelopeFailureWithoutText(result) ==
    Raise(server_error("Unknown server error"))

\* `raise SynapException.server_error(str(result.get("error", ...)))`
EnvelopeFailure(result) ==
    Raise(server_error(PyStr(DictGet(result, "error", JStr("Unknown server error")))))

\* `return result.get("payload", {}) if isinstance(result, dict) else {}`
EnvelopePayload(result) ==
    IF IsDict(result) THEN DictGet(result, "payload", EmptyDict) ELSE EmptyDict

\* send_command that tests the status before the envelope.
OnCommandResponseStatusFirst(response) ==
    IF BodyIsEmpty(response) THEN Return(EmptyDict)
    ELSE IF JsonFails(response) THEN ParseFailure
    ELSE IF ~is_success(response) THEN StatusFailure(response)
    ELSE IF EnvelopeFailed(response.body.j) THEN EnvelopeFailure(response.body.j)
    ELSE Return(EnvelopePayload(response.body.j))

\* send_command from the point the response of post() is there
OnCommandResponse(response) ==
    IF BodyIsEmpty(response) THEN Return(EmptyDict)
    ELSE IF JsonFails(response) THEN ParseFailure
    ELSE IF EnvelopeFailed(response.body.j) THEN EnvelopeFailure(response.body.j)
    ELSE IF ~is_success(response) THEN StatusFailure(response)
    ELSE Return(EnvelopePayload(response.body.j))

\* send_command: tr is what `await post(...)` did, Return(response) or Raise(e)
send_command(tr) ==
    IF tr.k = "raise" THEN OnTransportRaise(tr.e) ELSE OnCommandResponse(tr.v)

\* `isinstance(result, dict) and "error" in result`
LegacyFailed(result) == IsDict(result) /\ HasKey(result, "error")

\* `raise SynapException.server_error(str(result["error"]))`
LegacyFailure(result) == Raise(server_error(PyStr(result.o["error"])))

\* `return result if isinstance(result, dict) else {}`
LegacyResult(result) == IF IsDict(result) THEN result ELSE EmptyDict

OnExecuteResponse(response) ==
    IF BodyIsEmpty(response) THEN Return(EmptyDict)
    ELSE IF JsonFails(response) THEN ParseFailure
    ELSE IF LegacyFailed(response.body.j) THEN LegacyFailure(response.body.j)
    ELSE IF ~is_success(response) THEN StatusFailure(response)
    ELSE Return(LegacyResult(response.body.j))

execute(tr) ==
    IF tr.k = "raise" THEN OnTransportRaise(tr.e) ELSE OnExecuteResponse(tr.v)

(***************************************************************************)
(* TransactionManager.exec (modules/transaction.py).                       *)
(***************************************************************************)
\* A payload that carries the client_id whatever it is.
TransactionPayloadUnconditional(client_id) ==
    DictSet(EmptyDict, "client_id", client_id)

\* payload = {}; if client_id: payload["client_id"] = client_id
TransactionPayload(client_id) ==
    IF Truthy(client_id) THEN DictSet(EmptyDict, "client_id", client_id)
    ELSE EmptyDict

TypeError == [type |-> "TypeError", message |-> ""]
AttributeError == [type |-> "AttributeError", message |-> ""]

\* `"results" in response` on what send_command returned; raises on a value
\* that is no container
ResultsIn(response) ==
    CASE response.t = "obj"  -> Return(HasKey(response, "results"))
      [] response.t = "list" ->
            Return(\E i \in 1..Len(response.l) : response.l[i] = JStr("results"))
      [] response.t = "str"  -> Return(StrContains(response.s, "results"))
      [] OTHER -> Raise(TypeError)

\* response["results"]; only a dict is indexed by a str
ResultsOf(response) ==
    IF IsDict(response) THEN Return(response.o["results"]) ELSE Raise(TypeError)

\* response.get("message"); only a dict has get
MessageOf(response) ==
    IF IsDict(response) THEN Return(DictGet(response, "message", PyNone))
    ELSE Raise(AttributeError)

\* exec that fails when the transaction was aborted.
ExecAbortedRaising(response) == Raise(server_error("Transaction aborted"))

\* the aborted result of exec
ExecAborted(response) ==
    IF MessageOf(response).k = "raise" THEN MessageOf(response)
    ELSE Return(JObj([success |-> JBool(FALSE), aborted |-> JBool(TRUE),
                      message |-> MessageOf(response).v]))

\* `"results" in response and isinstance(response["results"], list)`
HasResultsList(response) ==
    IF ResultsIn(response).k = "raise" THEN ResultsIn(response)
    ELSE IF ~ResultsIn(response).v THEN Return(FALSE)
    ELSE IF ResultsOf(response).k = "raise" THEN ResultsOf(response)
    ELSE Return(IsList(ResultsOf(response).v))

\* exec from the point send_command returned `response`
ExecResult(response) ==
    IF HasResultsList(response).k = "raise" THEN HasResultsList(response)
    ELSE IF HasResultsList(response).v
    THEN Return(JObj([success |-> JBool(TRUE), results |-> response.o["results"]]))
    ELSE ExecAborted(response)

\* exec: sent is what send_command("transaction.exec", payload) did
exec(sent) == IF sent.k = "raise" THEN sent ELSE ExecResult(sent.v)

(***************************************************************************)
(* The command builders (modules/transaction.py, bitmap.py, geospatial.py, *)
(* set.py): the argument check and the payload handed to send_command, and *)
(* the field taken from what send_command returned.  Coordinates are whole *)
(* degrees.                                                                *)
(***************************************************************************)
ValueError(message) == [type |-> "ValueError", message |-> message]

\* if client_id: payload["client_id"] = client_id
WithClientId(payload, client_id) ==
    IF Truthy(client_id) THEN DictSet(payload, "client_id", client_id)
    ELSE payload

\* transaction.watch without the test of the key list.
watch_unchecked(keys, client_id) ==
    Return(WithClientId(JObj([keys |-> keys]), client_id))

\* TransactionManager.watch up to send_command: the payload, or the raise
watch(keys, client_id) ==
    IF ~Truthy(keys)
    THEN Raise(ValueError("Transaction watch requires at least one key"))
    ELSE Return(WithClientId(JObj([keys |-> keys]), client_id))

\* bitop without the test of NOT.
bitop_not_unchecked(operation, destination, source_keys) ==
    IF ~Truthy(source_keys)
    THEN Raise(ValueError("BITOP requires at least one source key"))
    ELSE Return(JObj([destination |-> JStr(destination),
                      operation |-> JStr(operation),
                      source_keys |-> source_keys]))

\* BitmapManager.bitop up to send_command
bitop(operation, destination, source_keys) ==
    IF operation = "NOT" /\ Len(source_keys.l) # 1
    THEN Raise(ValueError("NOT operation requires exactly one source key"))
    ELSE IF ~Truthy(source_keys)
    THEN Raise(ValueError("BITOP requires at least one source key"))
    ELSE Return(JObj([destination |-> JStr(destination),
                      operation |-> JStr(operation),
                      source_keys |-> source_keys]))

\* `if not -90 <= lat <= 90: raise ...; if not -180 <= lon <= 180: raise ...`
CoordinateError(lat, lon) ==
    IF ~(-90 <= lat /\ lat <= 90)
    THEN Raise(ValueError("Latitude must be between -90 and 90, got: "
                          \o (IF lat < 0 THEN "-" \o DecStr(-lat) ELSE DecStr(lat))))
    ELSE IF ~(-180 <= lon /\ lon <= 180)
    THEN Raise(ValueError("Longitude must be between -180 and 180, got: "
                          \o (IF lon < 0 THEN "-" \o DecStr(-lon) ELSE DecStr(lon))))
    ELSE Return(PyNone)

\* The location dict {"lat": ..., "lon": ..., "member": ...}
Location(lat, lon, member) ==
    JObj([lat |-> JNum(lat), lon |-> JNum(lon), member |-> JStr(member)])

\* `for loc in locations:` the first raise of the loop, if any
RECURSIVE FirstCoordinateError(_)
FirstCoordinateError(locs) ==
    IF Len(locs) = 0 THEN Return(PyNone)
    ELSE IF CoordinateError(locs[1].o["lat"].n, locs[1].o["lon"].n).k = "raise"
    THEN CoordinateError(locs[1].o["lat"].n, locs[1].o["lon"].n)
    ELSE FirstCoordinateError(Tail(locs))

\* geoadd that validates the first location only.
geoadd_checking_first(key, locations, nx, xx, ch) ==
    IF Len(locations.l) > 0
       /\ FirstCoordinateError(<<locations.l[1]>>).k = "raise"
    THEN FirstCoordinateError(<<locations.l[1]>>)
    ELSE Return(JObj([key |-> JStr(key), locations |-> locations,
                      nx |-> JBool(nx), xx |-> JBool(xx), ch |-> JBool(ch)]))

\* GeospatialManager.geoadd up to send_command
geoadd(key, locations, nx, xx, ch) ==
    IF FirstCoordinateError(locations.l).k = "raise"
    THEN FirstCoordinateError(locations.l)
    ELSE Return(JObj([key |-> JStr(key), locations |-> locations,
                      nx |-> JBool(nx), xx |-> JBool(xx), ch |-> JBool(ch)]))

\* GeospatialManager.georadius up to send_command, with the defaults of
\* unit, with_dist, with_coord and sort
georadius(key, center_lat, center_lon, radius, count) ==
    IF CoordinateError(center_lat, center_lon).k = "raise"
    THEN CoordinateError(center_lat, center_lon)
    ELSE LET payload ==
                 JObj([key |-> JStr(key), center_lat |-> JNum(center_lat),
                       center_lon |-> JNum(center_lon), radius |-> JNum(radius),
                       unit |-> JStr("m"), with_dist |-> JBool(FALSE),
                       with_coord |-> JBool(FALSE)])
         IN Return(IF count # PyNone THEN DictSet(payload, "count", count)
                   ELSE payload)

\* The commands of SetManager.inter, union, diff and of inter_store,
\* union_store, diff_store, which take a destination first.
SetCommands == {"set.inter", "set.union", "set.diff"}
SetStoreCommands == {"set.interstore", "set.unionstore", "set.diffstore"}

\* {"keys": list(keys)} or {"destination": destination, "keys": list(keys)}
set_payload(command, destination, keys) ==
    Return(IF command \in SetStoreCommands
           THEN JObj([destination |-> JStr(destination), keys |-> keys])
           ELSE JObj([keys |-> keys]))

\* HashManager.mset up to send_command: a list of {"field", "value"} dicts
\* is sent as a list with str(value), a dict as a dict with str(value)
mset(key, fields) ==
    Return(JObj([key |-> JStr(key),
                 fields |->
                     IF IsList(fields)
                     THEN JList([i \in 1..Len(fields.l) |->
                                    JObj([field |-> fields.l[i].o["field"],
                                          value |-> JStr(PyStr(fields.l[i].o["value"]))])])
                     ELSE JObj([k \in DOMAIN fields.o |-> JStr(PyStr(fields.o[k]))])]))

\* ListManager.lpop and rpop up to send_command
pop(key, count) ==
    Return(IF count # PyNone THEN DictSet(JObj([key |-> JStr(key)]), "count", count)
           ELSE JObj([key |-> JStr(key)]))

\* The payloads of HashManager.set, ListManager.set and ListManager.trim
success_payload ==
    ("hash.set" :> JObj([key |-> JStr("user:1"), field |-> JStr("age"),
                         value |-> JStr(PyStr(JNum(30)))]))
    @@ ("list.set" :> JObj([key |-> JStr("tasks"), index |-> JNum(0),
                            value |-> JStr("task1")]))
    @@ ("list.trim" :> JObj([key |-> JStr("tasks"), start |-> JNum(0),
                             stop |-> JNum(1)]))

\* `if x is not None: payload[k] = v`
SetIfGiven(payload, k, x, v) == IF x # PyNone THEN DictSet(payload, k, v) ELSE payload

\* GeospatialManager.geosearch up to send_command, with the defaults of
\* with_dist, with_coord, with_hash, count and sort; list(a_tuple) has the
\* elements of the tuple
geosearch(key, from_member, from_lonlat, by_radius, by_box) ==
    IF from_member = PyNone /\ from_lonlat = PyNone
    THEN Raise(ValueError("Either 'from_member' or 'from_lonlat' must be provided"))
    ELSE IF by_radius = PyNone /\ by_box = PyNone
    THEN Raise(ValueError("Either 'by_radius' or 'by_box' must be provided"))
    ELSE LET payload == JObj([key |-> JStr(key), with_dist |-> JBool(FALSE),
                              with_coord |-> JBool(FALSE), with_hash |-> JBool(FALSE)])
             centre == SetIfGiven(SetIfGiven(payload, "from_member", from_member,
                                             from_member),
                                  "from_lonlat", from_lonlat, JList(from_lonlat.l))
         IN Return(SetIfGiven(SetIfGiven(centre, "by_radius", by_radius,
                                         JList(by_radius.l)),
                              "by_box", by_box, JList(by_box.l)))

\* The default message of multi, discard, watch and unwatch.
TransactionMessages ==
    ("transaction.multi" :> "Transaction started")
    @@ ("transaction.discard" :> "Transaction discarded")
    @@ ("transaction.watch" :> "Keys watched")
    @@ ("transaction.unwatch" :> "Keys unwatched")

\* The field a builder takes from the payload, and its default.
Unwrap ==
    ("bitmap.bitop" :> [key |-> "length", default |-> JNum(0)])
    @@ ("geospatial.geoadd" :> [key |-> "added", default |-> JNum(0)])
    @@ ("geospatial.georadius" :> [key |-> "results", default |-> JList(<<>>)])
    @@ [c \in SetCommands |-> [key |-> "members", default |-> JList(<<>>)]]
    @@ [c \in SetStoreCommands |-> [key |-> "cardinality", default |-> JNum(0)]]
    @@ [c \in {"hash.mset"} \cup DOMAIN success_payload |->
           [key |-> "success", default |-> JBool(FALSE)]]
    @@ [c \in {"list.lpop", "list.rpop"} |->
           [key |-> "values", default |-> JList(<<>>)]]
    @@ ("geospatial.geosearch" :> [key |-> "results", default |-> JList(<<>>)])

\* response.get(key, default) on what send_command did
PayloadGet(sent, key, default) ==
    IF sent.k = "raise" THEN sent
    ELSE IF IsDict(sent.v) THEN Return(DictGet(sent.v, key, default))
    ELSE Raise(AttributeError)

\* The builder from the point send_command returned or raised.
BuilderOutcome(api, sent) ==
    IF api \in DOMAIN TransactionMessages
    THEN IF PayloadGet(sent, "success", JBool(TRUE)).k = "raise"
         THEN PayloadGet(sent, "success", JBool(TRUE))
         ELSE Return(JObj(
                  [success |-> PayloadGet(sent, "success", JBool(TRUE)).v,
                   message |-> PayloadGet(sent, "message",
                                          JStr(TransactionMessages[api])).v]))
    ELSE PayloadGet(sent, Unwrap[api].key, Unwrap[api].default)

(***************************************************************************)
(* The client as a state machine.  A call runs from its start to the await *)
(* of post() in one step, and from the result of post() to its return or   *)
(* raise in one step: the code between the two has no other await.  What   *)
(* a completed call got and gave stays in `last` until its caller goes on. *)
(***************************************************************************)
\* The data-structure families: one property and one field of the client each.
Families ==
    {"kv", "hash", "list", "set", "queue", "stream", "pubsub", "bitmap",
     "hyperloglog", "geospatial", "transaction"}

\* A property that constructs a manager at every access.
accessor_uncached(fields, family) == [fields EXCEPT ![family] = @ + 1]

\* `if self._kv is None: self._kv = KVStore(self)`, likewise for the other
\* families: the fields after the access.  The manager constructed is the
\* next one of its family.
accessor(fields, family) ==
    IF fields[family] = 0 THEN [fields EXCEPT ![family] = @ + 1] ELSE fields

CallIds == 1..MaxCalls

\* The tasks that share the client; each call slot belongs to one of them.
TaskIds == 1..MaxTasks

Idle == [pc |-> "idle"]

\* No completed call is under observation.
NoCall == [api |-> "none"]

\* send_command and execute are called with the request itself; a builder
\* is called with arguments of its own.
NoArgs == <<>>

\* The transaction scopes of the server: the one of a request that carries
\* no client_id, and the one of client_id "tx".
Scopes == {"", "tx"}

\* The server has no open transaction scope.
NoScopes == [s \in Scopes |-> [st |-> "idle", watched |-> {}, dirty |-> FALSE]]

Commands == {"kv.get"}
CommandPayloads == {PyNone, JObj([key |-> JStr("k")])}
RequestIds == {"uuid-a", "uuid-b"}      \* str(uuid.uuid4())
ClientIds == {PyNone, JStr(""), JStr("tx")}

Init ==
    \E cfg \in Configs, supplied \in {PyNone} \cup SuppliedClients :
        /\ config = cfg
        /\ owns_client = OwnsClient(supplied)
        /\ http_client = ClientTransport(cfg, supplied)
        /\ calls = [c \in TaskIds |-> Idle]
        /\ last = NoCall
        /\ in_context = FALSE
        /\ shutdowns = 0
        /\ configs = <<>>
        /\ config_op = NoCall
        /\ server = NoScopes
        /\ managers = [f \in Families |-> 0]

\* What the caller of `api` sees when post() did `tr`.
Outcome(api, tr) ==
    CASE api = "send_command"     -> send_command(tr)
      [] api = "execute"          -> execute(tr)
      [] api = "transaction.exec" -> exec(send_command(tr))
      [] OTHER                    -> BuilderOutcome(api, send_command(tr))

\* The completed call: what post() did, what the caller saw, and the number
\* of times the call invoked post().
Completed(api, tr, posts) ==
    [api |-> api, tr |-> tr, out |-> Outcome(api, tr), posts |-> posts]

\* `await self._http_client.post(path, json=...)`: the request leaves with the
\* headers of the transport, unless the transport is closed.
Post(c, api, args, request) ==
    IF http_client.is_closed
    THEN /\ last' = Completed(api, Raise(ClosedError), 1)
         /\ UNCHANGED calls
    ELSE /\ calls' = [calls EXCEPT ![c] =
                         [pc |-> "awaiting", api |-> api, args |-> args,
                          path |-> request.path, json |-> request.json,
                          headers |-> http_client.headers, posts |-> 1]]
         /\ UNCHANGED last

SendCommandCall(c) ==
    /\ last = NoCall
    /\ calls[c].pc = "idle"
    /\ \E cmd \in Commands, p \in CommandPayloads, rid \in RequestIds :
          Post(c, "send_command", NoArgs, send_command_request(cmd, p, rid))
    /\ UNCHANGED <<config, owns_client, http_client, in_context, shutdowns,
                 configs, config_op, server,
                 managers>>

ExecuteCall(c) ==
    /\ last = NoCall
    /\ calls[c].pc = "idle"
    /\ \E op \in Commands, d \in CommandPayloads :
          Post(c, "execute", NoArgs, execute_request(op, "k", d))
    /\ UNCHANGED <<config, owns_client, http_client, in_context, shutdowns,
                 configs, config_op, server,
                 managers>>

TransactionExecCall(c) ==
    /\ last = NoCall
    /\ calls[c].pc = "idle"
    /\ \E cid \in ClientIds, rid \in RequestIds :
          Post(c, "transaction.exec", [client_id |-> cid],
               send_command_request("transaction.exec", TransactionPayload(cid), rid))
    /\ UNCHANGED <<config, owns_client, http_client, in_context, shutdowns,
                 configs, config_op, server,
                 managers>>

\* A call whose end ends the other outstanding calls of the client with it.
ResumeEndingAll(c, tr) ==
    /\ last' = Completed(calls[c].api, tr, calls[c].posts)
    /\ calls' = [d \in TaskIds |-> Idle]

\* A call that posts again when post() raised, while the retry budget of the
\* configuration lasts.
ResumeRetrying(c, tr) ==
    IF tr.k = "raise" /\ calls[c].posts <= config.max_retries
    THEN /\ calls' = [calls EXCEPT ![c].posts = @ + 1]
         /\ UNCHANGED last
    ELSE /\ last' = Completed(calls[c].api, tr, calls[c].posts)
         /\ calls' = [calls EXCEPT ![c] = Idle]

\* The call resumes with what post() did and runs to its end.
Resume(c, tr) ==
    /\ last' = Completed(calls[c].api, tr, calls[c].posts)
    /\ calls' = [calls EXCEPT ![c] = Idle]

PostReturns(c) ==
    /\ last = NoCall
    /\ calls[c].pc = "awaiting"
    /\ \E response \in Responses : Resume(c, Return(response))
    /\ UNCHANGED <<config, owns_client, http_client, in_context, shutdowns,
                 configs, config_op, server,
                 managers>>

PostRaises(c) ==
    /\ last = NoCall
    /\ calls[c].pc = "awaiting"
    /\ \E e \in TransportErrors : Resume(c, Raise(e))
    /\ UNCHANGED <<config, owns_client, http_client, in_context, shutdowns,
                 configs, config_op, server,
                 managers>>

CallerTimeout(c) ==
    /\ last = NoCall
    /\ calls[c].pc = "awaiting"
    /\ Resume(c, Raise(CancelledError))
    /\ UNCHANGED <<config, owns_client, http_client, in_context, shutdowns,
                 configs, config_op, server,
                 managers>>

\* The caller of the completed call goes on with what it saw.
CallerContinues ==
    /\ last # NoCall
    /\ last' = NoCall
    /\ UNCHANGED <<config, owns_client, http_client, calls, in_context, shutdowns,
                 configs, config_op, server,
                 managers>>

\* async def close(self)
Close ==
    /\ last = NoCall
    /\ shutdowns < MaxShutdowns
    /\ http_client' = close(owns_client, http_client)
    /\ shutdowns' = shutdowns + 1
    /\ UNCHANGED <<config, owns_client, calls, last, in_context,
                 configs, config_op, server,
                 managers>>

\* async def __aenter__(self)
AEnter ==
    /\ last = NoCall
    /\ ~in_context
    /\ in_context' = TRUE
    /\ UNCHANGED <<config, owns_client, http_client, calls, last, shutdowns,
                 configs, config_op, server,
                 managers>>

\* async def __aexit__(self, *args): await self.close()
AExit ==
    /\ last = NoCall
    /\ in_context
    /\ shutdowns < MaxShutdowns
    /\ http_client' = close(owns_client, http_client)
    /\ shutdowns' = shutdowns + 1
    /\ in_context' = FALSE
    /\ UNCHANGED <<config, owns_client, calls, last, configs, config_op, server,
                 managers>>

Next ==
    \/ \E c \in CallIds : SendCommandCall(c)
    \/ \E c \in CallIds : ExecuteCall(c)
    \/ \E c \in CallIds : PostReturns(c)
    \/ \E c \in CallIds : PostRaises(c)
    \/ \E c \in CallIds : CallerTimeout(c)
    \/ CallerContinues
    \/ Close
    \/ AEnter
    \/ AExit

Spec == Init /\ [][Next]_vars

(***************************************************************************)
(* SynapConfig objects: the caller constructs one configuration and        *)
(* derives others from the ones it holds.  An object is its place in       *)
(* `configs`; no method assigns to a field of an existing object.          *)
(***************************************************************************)
ConfigIds == 1..MaxConfigs

\* The operation ends: `result` is the new object's fields, or the exception.
ConfigResult(op, self, args, result) ==
    /\ config_op' =
          [api |-> op, self |-> self, args |-> args, before |-> configs,
           out |-> IF result.k = "return" THEN Return(Len(configs) + 1)
                   ELSE result]
    /\ configs' = IF result.k = "return" THEN Append(configs, result.v)
                  ELSE configs

ConfigFrame ==
    UNCHANGED <<config, owns_client, http_client, calls, last, in_context,
                shutdowns, server,
                 managers>>

\* SynapConfig(base_url, timeout=..., auth_token=..., ...)
Construct ==
    /\ config_op = NoCall
    /\ configs = <<>>
    /\ \E b \in BaseUrlArgs, tm \in Timeouts, tk \in AuthTokens,
          u \in UsernameArgs, pw \in Passwords, r \in RetryBudgets :
          ConfigResult("SynapConfig", 0,
                       [base_url |-> b, timeout |-> tm, auth_token |-> tk,
                        username |-> u, password |-> pw, max_retries |-> r],
                       SynapConfigInit(b, tm, tk, u, pw, r))
    /\ ConfigFrame

\* SynapConfig.create(base_url)
Create ==
    /\ config_op = NoCall
    /\ configs = <<>>
    /\ \E b \in BaseUrlArgs :
          ConfigResult("create", 0, [base_url |-> b], create(b))
    /\ ConfigFrame

WithTimeout(i) ==
    /\ config_op = NoCall
    /\ i <= Len(configs)
    /\ Len(configs) < MaxConfigs
    /\ \E tm \in Timeouts :
          ConfigResult("with_timeout", i, [timeout |-> tm],
                       with_timeout(configs[i], tm))
    /\ ConfigFrame

WithAuthToken(i) ==
    /\ config_op = NoCall
    /\ i <= Len(configs)
    /\ Len(configs) < MaxConfigs
    /\ \E tk \in TokenArgs :
          ConfigResult("with_auth_token", i, [token |-> tk],
                       with_auth_token(configs[i], tk))
    /\ ConfigFrame

WithBasicAuth(i) ==
    /\ config_op = NoCall
    /\ i <= Len(configs)
    /\ Len(configs) < MaxConfigs
    /\ \E u \in UsernameArgs \ {PyNone}, pw \in Passwords \ {PyNone} :
          ConfigResult("with_basic_auth", i, [username |-> u, password |-> pw],
                       with_basic_auth(configs[i], u, pw))
    /\ ConfigFrame

WithMaxRetries(i) ==
    /\ config_op = NoCall
    /\ i <= Len(configs)
    /\ Len(configs) < MaxConfigs
    /\ \E r \in RetryBudgets :
          ConfigResult("with_max_retries", i, [retries |-> r],
                       with_max_retries(configs[i], r))
    /\ ConfigFrame

\* The caller goes on with the configuration, or the exception, it got.
ConfigCallerContinues ==
    /\ config_op # NoCall
    /\ config_op' = NoCall
    /\ UNCHANGED configs
    /\ ConfigFrame

\* The client of this specification: the one of create("http://h/").
ConfigInit ==
    /\ Init
    /\ owns_client
    /\ config = create("http://h/").v

ConfigNext ==
    \/ Construct
    \/ Create
    \/ \E i \in ConfigIds : WithTimeout(i)
    \/ \E i \in ConfigIds : WithAuthToken(i)
    \/ \E i \in ConfigIds : WithBasicAuth(i)
    \/ \E i \in ConfigIds : WithMaxRetries(i)
    \/ ConfigCallerContinues

ConfigSpec == ConfigInit /\ [][ConfigNext]_vars

(***************************************************************************)
(* The builders against a server.  One caller awaits each builder call     *)
(* before it makes the next; another client of the server writes keys.     *)
(* The server is not part of the SDK: its transaction scopes follow the    *)
(* state machine of the specification (idle, open, watching; committed,    *)
(* discarded or aborted, the scope is idle again), and its answer to any   *)
(* other command is one of a few envelopes.                                *)
(***************************************************************************)
\* The arguments the caller gives the builders.
KeyLists ==
    {JList(<<>>), JList(<<JStr("k")>>), JList(<<JStr("k"), JStr("j")>>)}
BitmapOperations == {"AND", "NOT"}
GeoPoints == {<<-90, -180>>, <<90, 180>>, <<91, 0>>, <<0, -181>>}
LocationLists ==
    {JList([i \in 1..Len(f) |-> Location(f[i][1], f[i][2], "m")]) :
        f \in UNION {[1..m -> GeoPoints] : m \in 0..MaxLocations}}

\* No builder call is in flight.
Sequential == last = NoCall /\ \A d \in CallIds : calls[d].pc = "idle"

\* The builder call: its argument check raised and no request leaves, or it
\* awaits send_command(api, payload).
Invoke(c, api, args, built) ==
    IF built.k = "raise"
    THEN /\ last' = [api |-> api, args |-> args, out |-> built, posts |-> 0]
         /\ UNCHANGED calls
    ELSE \E rid \in RequestIds :
            Post(c, api, args, send_command_request(api, built.v, rid))

BuilderFrame ==
    UNCHANGED <<config, owns_client, http_client, in_context, shutdowns,
                configs, config_op, server,
                 managers>>

\* transaction.multi, transaction.discard, transaction.unwatch
ScopeCall(c) ==
    /\ Sequential
    /\ \E api \in DOMAIN TransactionMessages \ {"transaction.watch"},
          cid \in ClientIds :
          Invoke(c, api, [client_id |-> cid], Return(TransactionPayload(cid)))
    /\ BuilderFrame

WatchCall(c) ==
    /\ Sequential
    /\ \E keys \in KeyLists, cid \in ClientIds :
          Invoke(c, "transaction.watch", [keys |-> keys, client_id |-> cid],
                 watch(keys, cid))
    /\ BuilderFrame

BitopCall(c) ==
    /\ Sequential
    /\ \E op \in BitmapOperations, keys \in KeyLists :
          Invoke(c, "bitmap.bitop", [operation |-> op, source_keys |-> keys],
                 bitop(op, "dest", keys))
    /\ BuilderFrame

GeoaddCall(c) ==
    /\ Sequential
    /\ \E locs \in LocationLists :
          Invoke(c, "geospatial.geoadd", [locations |-> locs],
                 geoadd("cities", locs, FALSE, FALSE, FALSE))
    /\ BuilderFrame

GeoradiusCall(c) ==
    /\ Sequential
    /\ \E pt \in GeoPoints, count \in {PyNone, JNum(0)} :
          Invoke(c, "geospatial.georadius",
                 [center_lat |-> pt[1], center_lon |-> pt[2], count |-> count],
                 georadius("cities", pt[1], pt[2], 100, count))
    /\ BuilderFrame

\* set.inter, union, diff, inter_store, union_store, diff_store
SetCall(c) ==
    /\ Sequential
    /\ \E api \in SetCommands \cup SetStoreCommands, keys \in KeyLists :
          Invoke(c, api, [keys |-> keys], set_payload(api, "dest", keys))
    /\ BuilderFrame

\* The dicts the caller gives hash.mset, and the list of {"field", "value"}
\* dicts that says the same as a dict.
FieldMappings ==
    {EmptyDict, JObj([name |-> JStr("Alice")]),
     JObj([name |-> JStr("Alice"), age |-> JNum(30)])}

RecordsOf(mapping) ==
    LET records[S \in SUBSET DOMAIN mapping.o] ==
            IF S = {} THEN <<>>
            ELSE LET k == CHOOSE x \in S : TRUE
                 IN <<JObj([field |-> JStr(k), value |-> mapping.o[k]])>>
                        \o records[S \ {k}]
    IN JList(records[DOMAIN mapping.o])

HashMsetCall(c) ==
    /\ Sequential
    /\ \E fields \in FieldMappings \cup {RecordsOf(m) : m \in FieldMappings} :
          Invoke(c, "hash.mset", [fields |-> fields], mset("user:1", fields))
    /\ BuilderFrame

\* list.lpop, list.rpop
ListPopCall(c) ==
    /\ Sequential
    /\ \E api \in {"list.lpop", "list.rpop"}, count \in {PyNone, JNum(1), JNum(2)} :
          Invoke(c, api, [count |-> count], pop("tasks", count))
    /\ BuilderFrame

\* hash.set, list.set, list.trim
SuccessCall(c) ==
    /\ Sequential
    /\ \E api \in DOMAIN success_payload :
          Invoke(c, api, NoArgs, Return(success_payload[api]))
    /\ BuilderFrame

GeosearchCall(c) ==
    /\ Sequential
    /\ \E from_member \in {PyNone, JStr("m")},
          from_lonlat \in {PyNone, [t |-> "tuple", l |-> <<JNum(1), JNum(2)>>]},
          by_radius \in {PyNone, [t |-> "tuple", l |-> <<JNum(50), JStr("km")>>]},
          by_box \in {PyNone,
                      [t |-> "tuple", l |-> <<JNum(5), JNum(6), JStr("km")>>]} :
          Invoke(c, "geospatial.geosearch",
                 [from_member |-> from_member, from_lonlat |-> from_lonlat,
                  by_radius |-> by_radius, by_box |-> by_box],
                 geosearch("cities", from_member, from_lonlat, by_radius, by_box))
    /\ BuilderFrame

\* The envelope of a successful answer, and of a failure.
Ok(payload) ==
    [status_code |-> 200,
     body |-> [k |-> "json",
               j |-> JObj([success |-> JBool(TRUE), payload |-> payload])]]
Failed(error) ==
    [status_code |-> 200,
     body |-> [k |-> "json",
               j |-> JObj([success |-> JBool(FALSE), error |-> JStr(error)])]]

\* The scope a request belongs to.
Scope(payload) ==
    IF HasKey(payload, "client_id") THEN payload.o["client_id"].s ELSE ""

\* The payloads of the answer to an exec that aborts: no `results` list.
AbortPayloads ==
    {EmptyDict,
     JObj([success |-> JBool(FALSE), aborted |-> JBool(TRUE),
           message |-> JStr("Watched key changed")])}

\* The payloads of the answer to a command outside the transaction family.
CommandPayloads200 ==
    {EmptyDict,
     JObj([length |-> JNum(8), added |-> JNum(1), cardinality |-> JNum(2),
           results |-> JList(<<JObj([member |-> JStr("m")])>>),
           members |-> JList(<<JStr("a")>>), success |-> JBool(TRUE),
           values |-> JList(<<JStr("task1")>>)])}

\* What the server does with a request: its answers, each with the scopes
\* after it.
Answers(json, srv) ==
    LET s == Scope(json.payload)
        closed == [srv EXCEPT ![s] = [st |-> "idle", watched |-> {}, dirty |-> FALSE]]
        said(text) == Ok(JObj([success |-> JBool(TRUE), message |-> JStr(text)]))
    IN CASE json.command = "transaction.multi" ->
              {[response |-> said("Transaction started"),
                server |-> [srv EXCEPT ![s].st = "open"]]}
         [] json.command = "transaction.watch" ->
              {[response |-> said("Keys watched"),
                server |-> [srv EXCEPT ![s].watched =
                               @ \cup {json.payload.o["keys"].l[i].s :
                                         i \in 1..Len(json.payload.o["keys"].l)}]]}
         [] json.command = "transaction.unwatch" ->
              {[response |-> said("Keys unwatched"),
                server |-> [srv EXCEPT ![s].watched = {}, ![s].dirty = FALSE]]}
         [] json.command = "transaction.discard" ->
              {[response |-> said("Transaction discarded"),
                server |-> closed]}
         [] json.command = "transaction.exec" ->
              IF srv[s].st # "open"
              THEN {[response |-> Failed("No transaction in progress"),
                     server |-> srv]}
              ELSE IF srv[s].dirty
              THEN {[response |-> Ok(p), server |-> closed] :
                       p \in AbortPayloads}
              ELSE {[response |-> Ok(JObj([results |-> JList(<<>>)])),
                     server |-> closed]}
         [] OTHER ->
              {[response |-> r, server |-> srv] :
                  r \in {Ok(p) : p \in CommandPayloads200} \cup {Failed("boom")}}

\* The server answers the request in flight and the call runs to its end.
ServerAnswers(c) ==
    /\ last = NoCall
    /\ calls[c].pc = "awaiting"
    /\ \E a \in Answers(calls[c].json, server) :
          /\ Resume(c, Return(a.response))
          /\ server' = a.server
    /\ UNCHANGED <<config, owns_client, http_client, in_context, shutdowns,
                   configs, config_op,
                 managers>>

\* Another client of the server writes a key: the scopes that watch it are
\* in conflict.
OtherWrite ==
    /\ \E key \in {"k", "j"} :
          server' = [s \in Scopes |->
                        IF key \in server[s].watched
                        THEN [server[s] EXCEPT !.dirty = TRUE]
                        ELSE server[s]]
    /\ UNCHANGED <<config, owns_client, http_client, calls, last, in_context,
                   shutdowns, configs, config_op,
                 managers>>

\* The client of this specification: the one of create("http://h/").
BuilderInit == ConfigInit

BuilderNext ==
    \/ \E c \in CallIds : ScopeCall(c)
    \/ \E c \in CallIds : WatchCall(c)
    \/ \E c \in CallIds : TransactionExecCall(c)
    \/ \E c \in CallIds : BitopCall(c)
    \/ \E c \in CallIds : GeoaddCall(c)
    \/ \E c \in CallIds : GeoradiusCall(c)
    \/ \E c \in CallIds : SetCall(c)
    \/ \E c \in CallIds : HashMsetCall(c)
    \/ \E c \in CallIds : ListPopCall(c)
    \/ \E c \in CallIds : SuccessCall(c)
    \/ \E c \in CallIds : GeosearchCall(c)
    \/ \E c \in CallIds : ServerAnswers(c)
    \/ \E c \in CallIds : PostRaises(c)
    \/ OtherWrite
    \/ CallerContinues

BuilderSpec == BuilderInit /\ [][BuilderNext]_vars

(***************************************************************************)
(* The tasks of one event loop share the client.  A property of the client *)
(* has no await: a task runs it from the test of the field to the return   *)
(* without any other task in between.  The calls of the tasks, a           *)
(* transaction.exec among them, are outstanding together, and post()       *)
(* completes them in any order with any response.                          *)
(***************************************************************************)
\* `client.kv`, `client.hash`, ...: task t reads a property of the client
Access(t) ==
    /\ last = NoCall
    /\ \E family \in Families :
          /\ managers' = accessor(managers, family)
          /\ last' = [api |-> "accessor", task |-> t, family |-> family,
                      cached |-> managers[family] # 0,
                      out |-> Return([family |-> family,
                                      nth |-> managers'[family]])]
    /\ UNCHANGED <<config, owns_client, http_client, calls, in_context,
                   shutdowns, configs, config_op, server>>

AccessorNext ==
    \/ \E t \in TaskIds : Access(t)
    \/ CallerContinues
    \/ Close
    \/ AEnter
    \/ AExit

AccessorSpec == ConfigInit /\ [][AccessorNext]_vars

ConcurrentNext ==
    \/ \E t \in TaskIds : SendCommandCall(t)
    \/ \E t \in TaskIds : ExecuteCall(t)
    \/ \E t \in TaskIds : TransactionExecCall(t)
    \/ \E t \in TaskIds : PostReturns(t)
    \/ \E t \in TaskIds : PostRaises(t)
    \/ \E t \in TaskIds : CallerTimeout(t)
    \/ CallerContinues

ConcurrentSpec == ConfigInit /\ [][ConcurrentNext]_vars

(***************************************************************************)
(* Properties.                                                             *)
(***************************************************************************)
\* The completed call is one of `apis` and post() returned a response.
Answered(apis) == last.api \in apis /\ last.tr.k = "return"

\* The completed call's response had a body that parsed as JSON.
Parsed(apis) == Answered(apis) /\ last.tr.v.body.k = "json"

\* The caller saw a SynapException of the given kind.
RaisedKind(kind) ==
    /\ last.out.k = "raise"
    /\ last.out.e.type = "SynapException"
    /\ last.out.e.kind = kind

\* A payload that contains a `results` list.
ContainsResultsList(payload) ==
    /\ IsDict(payload)
    /\ HasKey(payload, "results")
    /\ IsList(payload.o["results"])

\* C1: whenever send_command hands a payload to transaction.exec, exec returns
\* success=true with the payload's results list if the payload contains one,
\* and otherwise returns success=false, aborted=true and the optional message.
C1_ExecOutcomeByResults ==
    (last.api = "transaction.exec" /\ send_command(last.tr).k = "return") =>
        LET payload == send_command(last.tr).v IN
        IF ContainsResultsList(payload)
        THEN last.out = Return(JObj([success |-> JBool(TRUE),
                                     results |-> payload.o["results"]]))
        ELSE /\ last.out.k = "return"
             /\ last.out.v.o["success"] = JBool(FALSE)
             /\ last.out.v.o["aborted"] = JBool(TRUE)
             /\ ~HasKey(last.out.v, "results")
             /\ last.out.v.o["message"] =
                   (IF IsDict(payload) THEN DictGet(payload, "message", PyNone)
                    ELSE PyNone)

\* C2: a send_command response whose parsed body is an object with success
\* equal to false raises a server error, and the message of the error contains
\* the `error` text of the response.
C2_ServerErrorCarriesText ==
    (/\ Parsed({"send_command"})
     /\ IsDict(last.tr.v.body.j)
     /\ HasKey(last.tr.v.body.j, "success")
     /\ last.tr.v.body.j.o["success"] = JBool(FALSE)) =>
        /\ RaisedKind("server")
        /\ (/\ HasKey(last.tr.v.body.j, "error")
            /\ last.tr.v.body.j.o["error"].t = "str") =>
               StrContains(last.out.e.message, last.tr.v.body.j.o["error"].s)

C2_Witness ==
    /\ Parsed({"send_command"})
    /\ IsDict(last.tr.v.body.j)
    /\ DictGet(last.tr.v.body.j, "success", PyNone) = JBool(FALSE)
    /\ DictGet(last.tr.v.body.j, "error", PyNone) = JStr("boom")
    /\ last.out = Raise(server_error("boom"))

C4_FailureStatusNeverSwallowed ==
    (Answered({"send_command", "execute"}) /\ ~is_success(last.tr.v)) =>
        /\ last.out.k = "raise"
        /\ (/\ last.tr.v.body.k = "json"
            /\ last.api = "send_command" => ~EnvelopeFailed(last.tr.v.body.j)
            /\ last.api = "execute" => ~LegacyFailed(last.tr.v.body.j)) =>
               /\ RaisedKind("http")
               /\ last.out.e.status_code = last.tr.v.status_code

\* C5: a send_command or execute call answered with an empty body returns the
\* empty dict and raises nothing, whatever the status.
C5_EmptyBodyReturnsEmpty ==
    (Answered({"send_command", "execute"}) /\ last.tr.v.body.k = "empty") =>
        last.out = Return(EmptyDict)

C5_Witness ==
    /\ Answered({"send_command", "execute"})
    /\ last.tr.v.body.k = "empty"
    /\ last.out = Return(EmptyDict)

\* C6: execute raises a server error for a parsed response if and only if the
\* response is an object that carries a non-empty `error` field.
C6_ExecuteErrorIffNonEmpty ==
    Parsed({"execute"}) =>
        (RaisedKind("server") <=>
            /\ IsDict(last.tr.v.body.j)
            /\ HasKey(last.tr.v.body.j, "error")
            /\ Truthy(last.tr.v.body.j.o["error"]))

\* The call was in flight and post() raised instead of returning.
TransportFailed(apis) ==
    /\ last.api \in apis
    /\ last.tr.k = "raise"
    /\ last.tr.e # ClosedError

\* C7 as claimed: every failure of an in-flight send_command or execute call,
\* the caller-level timeout included, reaches the caller as a network error
\* whose message contains the underlying message.
C7_EveryFailureIsNetworkError ==
    TransportFailed({"send_command", "execute"}) =>
        /\ RaisedKind("network")
        /\ StrContains(last.out.e.message, last.tr.e.message)

\* C7 as amended: every failure the transport raises as an httpx.HTTPError
\* (connection refused, DNS failure, the transport's timeout) reaches the
\* caller as a network error whose message contains the underlying message; a
\* caller-level timeout cancels the call and reaches the caller as the
\* cancellation itself, never as a returned value.
C7_HTTPErrorsAreNetworkErrors ==
    TransportFailed({"send_command", "execute"}) =>
        IF last.tr.e \in TransportErrors
        THEN /\ RaisedKind("network")
             /\ StrContains(last.out.e.message, last.tr.e.message)
        ELSE last.tr.e = CancelledError /\ last.out = Raise(CancelledError)

C7_Witness ==
    /\ TransportFailed({"send_command", "execute"})
    /\ last.tr.e.type = "ReadTimeout"
    /\ last.out = Raise(network_error("timed out"))

\* C8: the transport a caller supplied is never closed by the client, whatever
\* close() calls and context-manager exits were made.
C8_SuppliedTransportStaysOpen ==
    ~owns_client => (~http_client.is_closed /\ http_client.aclose_calls = 0)

C8_Witness ==
    /\ ~owns_client
    /\ shutdowns >= 2
    /\ ~http_client.is_closed

\* C9 as claimed: once a client that created its transport was shut down, the
\* close operation of the transport was invoked exactly one time.
C9_ClosedExactlyOnce ==
    (owns_client /\ shutdowns >= 1) => http_client.aclose_calls = 1

\* C9 as amended: every shutdown operation on a client that created its
\* transport invokes the close operation of the transport exactly once, so n
\* shutdown operations invoke it n times; the transport is closed from the
\* first shutdown on and never before.
C9_ClosedOncePerShutdown ==
    owns_client =>
        /\ http_client.aclose_calls = shutdowns
        /\ http_client.is_closed <=> shutdowns >= 1

C9_Witness ==
    /\ owns_client
    /\ shutdowns = 2
    /\ http_client.aclose_calls = 2
    /\ http_client.is_closed

\* The Authorization header the credential mode of a configuration stands for.
HeadersMatchConfig(headers, cfg) ==
    /\ Truthy(cfg.auth_token) =>
          /\ "Authorization" \in DOMAIN headers
          /\ headers["Authorization"] = "Bearer " \o cfg.auth_token.s
    /\ (~Truthy(cfg.auth_token) /\ Truthy(cfg.username) /\ Truthy(cfg.password)) =>
          /\ "Authorization" \in DOMAIN headers
          /\ headers["Authorization"] =
                "Basic " \o b64encode(Encode(cfg.username.s \o ":" \o cfg.password.s))
          /\ (cfg.username.s = "u" /\ cfg.password.s = "pw") =>
                headers["Authorization"] = "Basic dTpwdw=="
    /\ (~Truthy(cfg.auth_token) /\ ~(Truthy(cfg.username) /\ Truthy(cfg.password))) =>
          "Authorization" \notin DOMAIN headers

\* C10 as claimed: the headers of every client's transport, and of every
\* request in flight, carry the Authorization header of the configuration's
\* credential mode.
C10_AuthHeaderFromConfig ==
    /\ HeadersMatchConfig(http_client.headers, config)
    /\ \A c \in CallIds :
          calls[c].pc = "awaiting" => HeadersMatchConfig(calls[c].headers, config)

\* C10 as amended: for every client that creates its own transport, the
\* headers of the transport, and of every request in flight, carry
\* `Bearer <token>` when a non-empty token is configured, `Basic
\* <base64(user:pass)>` when a non-empty username and password are configured,
\* and no Authorization header otherwise.
C10_OwnedTransportAuthHeader ==
    owns_client =>
        /\ HeadersMatchConfig(http_client.headers, config)
        /\ \A c \in CallIds :
              calls[c].pc = "awaiting" => HeadersMatchConfig(calls[c].headers, config)

C10_Witness ==
    /\ owns_client
    /\ Truthy(config.username)
    /\ \E c \in CallIds :
          /\ calls[c].pc = "awaiting"
          /\ "Authorization" \in DOMAIN calls[c].headers
          /\ calls[c].headers["Authorization"] = "Basic dTpwdw=="

\* C17: every send_command or execute call invokes post() exactly once,
\* whatever its outcome and whatever max_retries the configuration holds: one
\* request while the call is in flight, one when it has completed, whether
\* post() returned, raised or was cancelled.
C17_OnePostPerCall ==
    /\ \A c \in CallIds : calls[c].pc = "awaiting" => calls[c].posts = 1
    /\ last.api \in {"send_command", "execute"} => last.posts = 1

C17_Witness ==
    /\ last.api \in {"send_command", "execute"}
    /\ last.tr.k = "raise"
    /\ last.tr.e \in TransportErrors
    /\ config.max_retries = DefaultMaxRetries
    /\ last.out.k = "raise"
    /\ last.posts = 1

\* The configuration operation that just completed returned a new object.
Derived(ops) == config_op.api \in ops /\ config_op.out.k = "return"

\* The object the completed operation returned, and its receiver.
NewConfig == configs[config_op.out.v]
Receiver == configs[config_op.self]

\* A credential that is given: a string that is not empty.
BothModes(auth_token, username, password) ==
    Truthy(auth_token) /\ (Truthy(username) \/ Truthy(password))

RaisedConfigurationError ==
    /\ config_op.out.k = "raise"
    /\ config_op.out.e.type = "SynapException"

\* C11: constructing a configuration with a non-empty token together with a
\* non-empty username or password fails with a configuration error; every
\* configuration that the constructor, create and the chains of with_* calls
\* produced has at most one credential mode active; with_auth_token leaves
\* username and password unset and with_basic_auth leaves the token unset.
C11_AtMostOneCredentialMode ==
    /\ \A i \in 1..Len(configs) :
          ~BothModes(configs[i].auth_token, configs[i].username,
                     configs[i].password)
    /\ (/\ config_op.api = "SynapConfig"
        /\ BothModes(config_op.args.auth_token, config_op.args.username,
                     config_op.args.password)) => RaisedConfigurationError
    /\ Derived({"with_auth_token"}) =>
          /\ NewConfig.auth_token = config_op.args.token
          /\ NewConfig.username = PyNone
          /\ NewConfig.password = PyNone
    /\ Derived({"with_basic_auth"}) =>
          /\ NewConfig.auth_token = PyNone
          /\ NewConfig.username = config_op.args.username
          /\ NewConfig.password = config_op.args.password

C11_Witness ==
    /\ Derived({"with_auth_token"})
    /\ Truthy(Receiver.username)
    /\ Truthy(Receiver.password)
    /\ NewConfig.auth_token = JStr("tk")
    /\ NewConfig.username = PyNone

\* The fields a with_* method does not target, credential fields apart.
SameSettings(a, b, fields) == \A f \in fields : a[f] = b[f]

\* C12: every with_* call on a configuration the caller holds returns a new
\* object, distinct from the receiver, whose targeted field has the given
\* value and whose other fields are those of the receiver (the credentials an
\* auth switch clears apart); the receiver keeps every field.
C12_WithReturnsNewConfig ==
    config_op.api \in {"with_timeout", "with_auth_token", "with_basic_auth",
                       "with_max_retries"} =>
        /\ config_op.out.k = "return"
        /\ config_op.out.v # config_op.self
        /\ Receiver = config_op.before[config_op.self]
        /\ config_op.api = "with_timeout" =>
              /\ NewConfig.timeout = config_op.args.timeout
              /\ SameSettings(NewConfig, Receiver,
                              {"base_url", "auth_token", "username", "password",
                               "max_retries"})
        /\ config_op.api = "with_max_retries" =>
              /\ NewConfig.max_retries = config_op.args.retries
              /\ SameSettings(NewConfig, Receiver,
                              {"base_url", "auth_token", "username", "password",
                               "timeout"})
        /\ config_op.api = "with_auth_token" =>
              /\ NewConfig.auth_token = config_op.args.token
              /\ SameSettings(NewConfig, Receiver,
                              {"base_url", "timeout", "max_retries"})
        /\ config_op.api = "with_basic_auth" =>
              /\ NewConfig.username = config_op.args.username
              /\ NewConfig.password = config_op.args.password
              /\ SameSettings(NewConfig, Receiver,
                              {"base_url", "timeout", "max_retries"})

\* A string of blanks only; the empty string is one.
IsBlank(str) == \A i \in 1..Len(str) : SubSeq(str, i, i) = " "

EndsWithSlash(str) == Len(str) > 0 /\ SubSeq(str, Len(str), Len(str)) = "/"

\* C13: constructing a configuration with an empty or blank base URL fails
\* with the configuration error, and the base_url of every configuration
\* that was constructed does not end with a slash.
C13_BaseUrlNormalized ==
    /\ (/\ config_op.api \in {"SynapConfig", "create"}
        /\ IsBlank(config_op.args.base_url)) =>
          config_op.out = Raise(SynapException("Base URL cannot be empty"))
    /\ \A i \in 1..Len(configs) : ~EndsWithSlash(configs[i].base_url)

C13_Witness ==
    /\ Derived({"SynapConfig", "create"})
    /\ config_op.args.base_url = "http://h//"
    /\ NewConfig.base_url = "http://h"

\* Call `c` is a request in flight of one of the builders `apis`.
InFlight(c, apis) == calls[c].pc = "awaiting" /\ calls[c].api \in apis

\* A call of one of the builders `apis` ended before any request was made.
Rejected(apis) == last.api \in apis /\ last.posts = 0

RaisedValueError == last.out.k = "raise" /\ last.out.e.type = "ValueError"

\* C14: every transaction call (multi, watch, unwatch, discard, exec) that is
\* given a client_id string sends a request whose payload carries that string
\* as client_id, whatever the string is.
C14_ClientIdPropagated ==
    \A c \in CallIds :
        (/\ InFlight(c, DOMAIN TransactionMessages \cup {"transaction.exec"})
         /\ calls[c].args.client_id # PyNone) =>
            /\ HasKey(calls[c].json.payload, "client_id")
            /\ calls[c].json.payload.o["client_id"] = calls[c].args.client_id

\* C15: transaction.watch with an empty key list raises the argument error
\* and makes no request; with a non-empty key list it sends one request, with
\* command transaction.watch and exactly that key list, in order.
C15_WatchNeedsKeys ==
    /\ Rejected({"transaction.watch"}) =>
          /\ last.args.keys = JList(<<>>)
          /\ last.out =
                Raise(ValueError("Transaction watch requires at least one key"))
    /\ \A c \in CallIds :
          InFlight(c, {"transaction.watch"}) =>
              /\ calls[c].args.keys # JList(<<>>)
              /\ calls[c].posts = 1
              /\ calls[c].json.command = "transaction.watch"
              /\ calls[c].json.payload.o["keys"] = calls[c].args.keys

C15_Witness ==
    /\ Rejected({"transaction.watch"})
    /\ last.args.keys = JList(<<>>)
    /\ last.args.client_id = JStr("tx")
    /\ RaisedValueError

\* C16: when the server answers an exec whose scope is open and in conflict
\* (multi, then watch of a key, then a write to that key by another client),
\* exec returns success=false and aborted=true: it neither reports success
\* nor raises.
C16_ConflictAbortsExec ==
    [][\A c \in CallIds :
          (/\ InFlight(c, {"transaction.exec"})
           /\ server[Scope(calls[c].json.payload)].st = "open"
           /\ server[Scope(calls[c].json.payload)].dirty
           /\ calls'[c].pc = "idle"
           /\ last' # NoCall
           /\ last'.tr.k = "return") =>
              /\ last'.out.k = "return"
              /\ last'.out.v.o["success"] = JBool(FALSE)
              /\ last'.out.v.o["aborted"] = JBool(TRUE)]_vars

C16_Witness ==
    /\ last.api = "transaction.exec"
    /\ last.tr = Return(Ok(JObj([success |-> JBool(FALSE), aborted |-> JBool(TRUE),
                                 message |-> JStr("Watched key changed")])))
    /\ server["tx"].st = "idle"
    /\ last.out = Return(JObj([success |-> JBool(FALSE), aborted |-> JBool(TRUE),
                               message |-> JStr("Watched key changed")]))

\* C18: bitop with NOT and a number of source keys other than one, and bitop
\* with no source key, raises the argument error before any request: no such
\* call is ever in flight, and every rejected bitop call is of that kind.
C18_BitopRejectsBeforeRequest ==
    /\ \A c \in CallIds :
          InFlight(c, {"bitmap.bitop"}) =>
              /\ Len(calls[c].args.source_keys.l) >= 1
              /\ calls[c].args.operation = "NOT" =>
                    Len(calls[c].args.source_keys.l) = 1
              /\ calls[c].json.payload.o["source_keys"] = calls[c].args.source_keys
    /\ Rejected({"bitmap.bitop"}) =>
          /\ RaisedValueError
          /\ \/ Len(last.args.source_keys.l) = 0
             \/ last.args.operation = "NOT" /\ Len(last.args.source_keys.l) # 1

C18_Witness ==
    /\ Rejected({"bitmap.bitop"})
    /\ last.args.operation = "NOT"
    /\ Len(last.args.source_keys.l) = 2
    /\ last.out =
          Raise(ValueError("NOT operation requires exactly one source key"))

\* A coordinate within the bounds, the bounds included.
InRange(lat, lon) == -90 <= lat /\ lat <= 90 /\ -180 <= lon /\ lon <= 180

AllInRange(locations) ==
    \A i \in 1..Len(locations.l) :
        InRange(locations.l[i].o["lat"].n, locations.l[i].o["lon"].n)

\* C19: geoadd and georadius make a request only with coordinates within
\* latitude [-90, 90] and longitude [-180, 180], and reject, with the argument
\* error and no request, exactly the calls with a coordinate outside: the
\* boundary values are accepted, and one location out of range anywhere in
\* the list of a geoadd rejects the call, so none of its locations is sent.
C19_CoordinatesChecked ==
    /\ \A c \in CallIds :
          /\ InFlight(c, {"geospatial.geoadd"}) =>
                /\ AllInRange(calls[c].args.locations)
                /\ calls[c].json.payload.o["locations"] = calls[c].args.locations
          /\ InFlight(c, {"geospatial.georadius"}) =>
                InRange(calls[c].args.center_lat, calls[c].args.center_lon)
    /\ Rejected({"geospatial.geoadd"}) =>
          RaisedValueError /\ ~AllInRange(last.args.locations)
    /\ Rejected({"geospatial.georadius"}) =>
          RaisedValueError /\ ~InRange(last.args.center_lat, last.args.center_lon)

C19_Witness ==
    /\ Rejected({"geospatial.geoadd"})
    /\ Len(last.args.locations.l) = 2
    /\ last.args.locations.l[1] = Location(90, 180, "m")
    /\ last.args.locations.l[2] = Location(0, -181, "m")
    /\ last.out = Raise(ValueError(
                       "Longitude must be between -180 and 180, got: -181"))

\* C20: a multi-key set operation (inter, union, diff, inter_store,
\* union_store, diff_store) with no key raises the argument error and makes
\* no request: no such call is ever in flight.
C20_SetNeedsKeys ==
    \A c \in CallIds :
        InFlight(c, SetCommands \cup SetStoreCommands) =>
            Len(calls[c].args.keys.l) >= 1

\* C21: for every mapping m, hash.mset with m and hash.mset with the record
\* list built from m send the same payload, the values converted to strings:
\* the request of a call given a mapping carries the payload of the call
\* given its record list.
C21_MsetOneWireShape ==
    \A c \in CallIds :
        (InFlight(c, {"hash.mset"}) /\ IsDict(calls[c].args.fields)) =>
            calls[c].json.payload = mset("user:1", RecordsOf(calls[c].args.fields)).v

\* C22: the request of list.lpop and list.rpop always carries `count`: the
\* count of the caller, and 1 when the caller gave none.
C22_PopAlwaysSendsCount ==
    \A c \in CallIds :
        InFlight(c, {"list.lpop", "list.rpop"}) =>
            /\ HasKey(calls[c].json.payload, "count")
            /\ calls[c].json.payload.o["count"] =
                   (IF calls[c].args.count = PyNone THEN JNum(1)
                    ELSE calls[c].args.count)

\* send_command completed the round trip of the last call without error and
\* returned a payload that has no `success` key.
ReturnedWithoutSuccess ==
    /\ last.api \in {"hash.mset"} \cup DOMAIN success_payload
                        \cup DOMAIN TransactionMessages
    /\ last.posts = 1
    /\ send_command(last.tr).k = "return"
    /\ IsDict(send_command(last.tr).v)
    /\ ~HasKey(send_command(last.tr).v, "success")

\* C23: hash.set, hash.mset, list.set, list.trim and transaction.multi,
\* discard, watch, unwatch report success (true) when send_command returned
\* a payload that has no `success` key.
C23_MissingSuccessIsTrue ==
    ReturnedWithoutSuccess =>
        IF last.api \in DOMAIN TransactionMessages
        THEN last.out.k = "return" /\ last.out.v.o["success"] = JBool(TRUE)
        ELSE last.out = Return(JBool(TRUE))

\* C30: geosearch raises the argument error and makes no request when it is
\* given no centre or no shape, and no request of geosearch carries both
\* from_member and from_lonlat.
C30_GeosearchOneCentre ==
    /\ \A c \in CallIds :
          InFlight(c, {"geospatial.geosearch"}) =>
              /\ calls[c].args.from_member # PyNone
                    \/ calls[c].args.from_lonlat # PyNone
              /\ calls[c].args.by_radius # PyNone \/ calls[c].args.by_box # PyNone
              /\ ~(/\ HasKey(calls[c].json.payload, "from_member")
                   /\ HasKey(calls[c].json.payload, "from_lonlat"))
    /\ Rejected({"geospatial.geosearch"}) =>
          /\ RaisedValueError
          /\ \/ last.args.from_member = PyNone /\ last.args.from_lonlat = PyNone
             \/ last.args.by_radius = PyNone /\ last.args.by_box = PyNone

\* C24: for each family at most one manager is ever constructed for the
\* client, and every access of the property, by any task and in any order,
\* returns that one manager.
C24_OneManagerPerFamily ==
    /\ \A family \in Families : managers[family] <= 1
    /\ last.api = "accessor" =>
          last.out = Return([family |-> last.family, nth |-> 1])

\* Task 2 reads a property whose manager another access constructed before,
\* on a client that was closed since, and gets the manager of the field.
C24_Witness ==
    /\ last.api = "accessor"
    /\ last.task = 2
    /\ last.cached
    /\ shutdowns > 0
    /\ last.out = Return([family |-> last.family, nth |-> managers[last.family]])
    /\ \E family \in Families \ {last.family} : managers[family] = 1
    /\ \E family \in Families : managers[family] = 0

\* The outcome the ordered rules give for what post() did: network error,
\* empty result, invalid-response error, server error, HTTP error, payload.
RuleOutcome(tr) ==
    IF tr.k = "raise" THEN "network"
    ELSE IF tr.v.body.k = "empty" THEN "empty"
    ELSE IF tr.v.body.k # "json" THEN "invalid_response"
    ELSE IF /\ tr.v.body.j.t = "obj"
            /\ "success" \in DOMAIN tr.v.body.j.o
            /\ ~Truthy(tr.v.body.j.o["success"])
    THEN "server"
    ELSE IF ~(200 <= tr.v.status_code /\ tr.v.status_code <= 299) THEN "http"
    ELSE "payload"

\* The last call ended as the rule says.
EndedAs(rule) ==
    CASE rule = "empty" -> last.out = Return(EmptyDict)
      [] rule = "payload" ->
            /\ last.out.k = "return"
            /\ last.out.v =
                   (IF /\ last.tr.v.body.j.t = "obj"
                       /\ "payload" \in DOMAIN last.tr.v.body.j.o
                    THEN last.tr.v.body.j.o["payload"] ELSE EmptyDict)
      [] rule = "http" ->
            RaisedKind("http") /\ last.out.e.status_code = last.tr.v.status_code
      [] OTHER -> RaisedKind(rule)

\* C25: the outcome of send_command is given by the ordered rules (transport
\* failure, empty body, unparseable body, failed envelope, failure status,
\* payload) and is exactly one of network error, empty result,
\* invalid-response error, server error, HTTP error, returned payload.
C25_OutcomeByOrderedRules ==
    last.api = "send_command" => EndedAs(RuleOutcome(last.tr))

\* C25 as amended: an exception of post() that is no httpx.HTTPError (the
\* cancellation of the task, the RuntimeError of a closed transport) reaches
\* the caller unchanged; every other outcome is given by the ordered rules.
C25_OutcomeByOrderedRulesOrPassThrough ==
    last.api = "send_command" =>
        IF last.tr.k = "raise" /\ last.tr.e.type \notin HttpxHTTPErrors
        THEN last.out = last.tr
        ELSE EndedAs(RuleOutcome(last.tr))

\* A response of status 500 whose body says success=false ended as a server
\* error.
C25_Witness ==
    /\ Parsed({"send_command"})
    /\ last.tr.v.status_code = 500
    /\ IsDict(last.tr.v.body.j)
    /\ HasKey(last.tr.v.body.j, "success")
    /\ last.tr.v.body.j.o["success"] = JBool(FALSE)
    /\ RaisedKind("server")

\* The calls of the transaction client.
TransactionCalls == DOMAIN TransactionMessages \cup {"transaction.exec"}

\* The request that leaves in this step for a transaction call has the
\* command of the call and a payload made of the arguments of the call alone.
RequestFromArguments ==
    \A c \in CallIds :
        (calls[c].pc = "idle" /\ InFlight(c, TransactionCalls)') =>
            /\ calls'[c].path = "/api/v1/command"
            /\ calls'[c].json.command = calls'[c].api
            /\ calls'[c].posts = 1
            /\ DOMAIN calls'[c].json.payload.o =
                   (IF calls'[c].api = "transaction.watch" THEN {"keys"} ELSE {})
                   \cup (IF Truthy(calls'[c].args.client_id) THEN {"client_id"}
                         ELSE {})
            /\ \A k \in DOMAIN calls'[c].json.payload.o :
                   calls'[c].json.payload.o[k] = calls'[c].args[k]

\* No step changes a field of the client.
ClientUnchanged ==
    <<config, owns_client, http_client, managers>>'
        = <<config, owns_client, http_client, managers>>

\* C26: each multi, watch, unwatch, discard and exec call, in any order,
\* issues exactly one request with its fixed command name, the request is
\* made of the call's own arguments, and the client is after the call what
\* it was before.
C26_OneRequestPerTransactionCall ==
    [][/\ RequestFromArguments
       /\ ClientUnchanged
       /\ (last = NoCall /\ last'.api \in TransactionCalls) => last'.posts = 1]_vars

\* C26 as amended: a watch call with an empty key list raises the argument
\* error and issues no request; every other call issues exactly one.
C26_OneRequestPerAcceptedCall ==
    [][/\ RequestFromArguments
       /\ ClientUnchanged
       /\ (last = NoCall /\ last'.api \in TransactionCalls) =>
             IF last'.api = "transaction.watch" /\ last'.posts = 0
             THEN Len(last'.args.keys.l) = 0
             ELSE last'.posts = 1]_vars

\* multi is called again with the client_id of a scope that is open, and its
\* request is in flight.
C26_Witness ==
    /\ InFlight(1, {"transaction.multi"})
    /\ calls[1].args.client_id = JStr("tx")
    /\ server["tx"].st = "open"
    /\ server["tx"].watched # {}
    /\ calls[1].json.payload = JObj([client_id |-> JStr("tx")])

\* C27: whenever send_command or execute returns normally, the value it
\* returns is an object, whatever the parseable body was.
C27_ReturnsAnObject ==
    (last.api \in {"send_command", "execute"} /\ last.out.k = "return") =>
        last.out.v.t = "obj"

\* The step starts or ends the call of task t.
Starts(t) == calls[t].pc = "idle" /\ calls'[t].pc = "awaiting"
Ends(t) == calls[t].pc = "awaiting" /\ calls'[t].pc = "idle"

\* C28: with several send_command and execute calls outstanding on one
\* client and their responses arriving in any order, the request of a call
\* is made of its own arguments and the headers of the client, its outcome is
\* the one of its own response, the other outstanding calls are as they
\* were, and no call changes a field of the client.
C28_CallsAreIndependent ==
    [][/\ ClientUnchanged
       /\ \A t \in TaskIds :
             /\ (Starts(t) \/ Ends(t)) =>
                   \A u \in TaskIds \ {t} : calls'[u] = calls[u]
             /\ Starts(t) =>
                   /\ calls'[t].headers = http_client.headers
                   /\ calls'[t].posts = 1
                   /\ calls'[t].api = "send_command" =>
                         /\ calls'[t].path = "/api/v1/command"
                         /\ DOMAIN calls'[t].json = {"command", "request_id", "payload"}
                         /\ calls'[t].json.command \in Commands
                         /\ calls'[t].json.request_id \in RequestIds
                         /\ calls'[t].json.payload \in
                                (CommandPayloads \ {PyNone}) \cup {EmptyDict}
                   /\ calls'[t].api = "execute" =>
                         /\ calls'[t].path = "/api/stream"
                         /\ DOMAIN calls'[t].json = {"operation", "target", "data"}
                         /\ calls'[t].json.data \in
                                (CommandPayloads \ {PyNone}) \cup {EmptyDict}
             /\ Ends(t) =>
                   /\ last'.api = calls[t].api
                   /\ last'.posts = 1
                   /\ last'.api = "send_command" =>
                         last'.out = send_command(last'.tr)
                   /\ last'.api = "execute" => last'.out = execute(last'.tr)]_vars

\* The execute call of one task failed in the transport while the
\* send_command call of task 1 is outstanding, and the caller of task 2 has
\* its network error.
C28_Witness ==
    /\ calls[1].pc = "awaiting"
    /\ calls[1].api = "send_command"
    /\ calls[2].pc = "idle"
    /\ last.api = "execute"
    /\ last.tr.k = "raise"
    /\ RaisedKind("network")

\* C29: every configuration object that exists has a non-empty base_url, and
\* with_timeout, with_auth_token, with_basic_auth and with_max_retries on a
\* configuration that exists never raise.
C29_BaseUrlNeverEmpty ==
    /\ \A i \in 1..Len(configs) : configs[i].base_url # ""
    /\ config_op.api \in {"with_timeout", "with_auth_token", "with_basic_auth",
                          "with_max_retries"} =>
          config_op.out.k = "return"

====
